---- MODULE Spec2Model ----
(***************************************************************************)
(* One run of the New Relic deprovisioning function                        *)
(* (src/nr-user-mgmt/function_app.py): main() parses the Event Grid event, *)
(* acquires a Graph token, resolves the user's email, looks the user up in *)
(* New Relic and removes it.  Every network call is split in the step that *)
(* issues the request and the step that receives the response; the         *)
(* response is chosen by the environment.                                  *)
(*                                                                         *)
(* JSON objects are functions from keys to values (the empty object is     *)
(* <<>>), JSON arrays are sequences, Python's None is the value None.      *)
(* The event's subject is a sequence of characters so that split("/") is   *)
(* computed rather than assumed.                                           *)
(***************************************************************************)
EXTENDS Integers, Sequences, FiniteSets, TLC

VARIABLES env, event, pc, user_id, access_token, email, new_relic_user_id,
          token_response, email_response, lookup_data, delete_data,
          removed, http_response, calls, inflight,
          inv, nr_users, api,
          k_env, k_pc, k_file, k_ids, k_steps, k_exc, k_post, k_response

vars == <<env, event, pc, user_id, access_token, email, new_relic_user_id,
          token_response, email_response, lookup_data, delete_data,
          removed, http_response, calls, inflight,
          inv, nr_users, api,
          k_env, k_pc, k_file, k_ids, k_steps, k_exc, k_post, k_response>>

\* the state of the concurrent invocations and of the platform they share
multivars == <<inv, nr_users, api>>

\* the state of the Kafka consumer-group function
kafkavars ==
    <<k_env, k_pc, k_file, k_ids, k_steps, k_exc, k_post, k_response>>

\* the state outside the single run
othervars == <<multivars, kafkavars>>

\* ---- bounds ----------------------------------------------------------
\* longest subject string of an event, in characters
MaxSubjectLen == 3
\* longest users array in a New Relic search response
MaxUsers == 2
\* most lines in the output of kafka-consumer-groups.sh
MaxLines == 2
\* longest line of that output, in characters
MaxLineLen == 2

\* ---- values ----------------------------------------------------------
\* Python's None (also the value of a JSON null)
None == "None"

\* dict.get(k, def)
Get(d, k, def) == IF k \in DOMAIN d THEN d[k] ELSE def

\* truth value of an optional string: None and "" are falsy
Truthy(s) == s # None /\ s # ""

\* all sequences over S of length at most n
SeqsUpTo(S, n) == UNION {[1..k -> S] : k \in 0..n}

\* str.split(sep): the segments between the separators, at least one
RECURSIVE split(_, _)
split(s, sep) ==
    IF s = <<>> THEN << <<>> >>
    ELSE LET rest == split(Tail(s), sep)
         IN  IF Head(s) = sep
             THEN << <<>> >> \o rest
             ELSE << <<Head(s)>> \o Head(rest) >> \o Tail(rest)

\* func.HttpResponse(body, status_code=...)
HttpResponse(body, status) == [body |-> body, status_code |-> status]

\* no response returned yet
NoResponse == [body |-> <<>>, status_code |-> 0]

\* ---- inputs ----------------------------------------------------------
\* characters a subject is made of
SubjectChars == {"u", "/"}

\* the event's operation type, as the group-membership events name it;
\* the deprovisioning main() never reads it
EventTypes == {"UserRemovedFromGroup", "UserAddedToGroup", "Unknown"}

\* the event reports a removal from the group
IsRemoval(e) == e.eventType = "UserRemovedFromGroup"

\* event.get_json(): with a subject, or without the key
Events ==
    {[subject |-> s, eventType |-> t] :
        s \in SeqsUpTo(SubjectChars, MaxSubjectLen), t \in EventTypes}
    \cup {[eventType |-> t] : t \in EventTypes}

\* the four os.getenv values: a value, or None when the variable is unset
Environments ==
    [TENANT_ID : {None, "tenant"}, CLIENT_ID : {None, "client"},
     CLIENT_SECRET : {None, "secret"}, NEW_RELIC_API_KEY : {None, "key"}]

\* the directory credentials are all set
GraphCredentials(e) ==
    e.TENANT_ID # None /\ e.CLIENT_ID # None /\ e.CLIENT_SECRET # None

\* acquire_token_for_client results; no token is granted without the
\* credentials
TokenResponses(e) ==
    {[error |-> "invalid_client", error_description |-> "rejected"]}
    \cup (IF GraphCredentials(e)
          THEN {[access_token |-> "tok"], [access_token |-> ""]}
          ELSE {})

\* responses of GET {GRAPH_API_BASE}/users/{user_id}
EmailResponses ==
    {[status_code |-> 200, json |-> [mail |-> m]] :
        m \in {"alice@example.com", "", None}}
    \cup {[status_code |-> 200, json |-> [displayName |-> "Alice"]],
          [status_code |-> 404, json |-> [error |-> "Request_ResourceNotFound"]],
          [status_code |-> 401, json |-> [error |-> "InvalidAuthenticationToken"]]}

\* one entry of a users array: keyed "id" (what the code reads) or
\* "userId" (what the query asks for)
UserEntries ==
    {[id |-> "NR-999"], [id |-> "NR-1"], [id |-> ""], [userId |-> "NR-999"]}

\* a search response with the users array under data.actor.<k>.userSearch
SearchResult(k, us) ==
    [data |-> [actor |-> (k :> [userSearch |-> [users |-> us]])]]

\* responses of the user lookup POST; without the API key only errors
LookupResponses(e) ==
    {[errors |-> <<"error">>],
     [errors |-> <<"error">>, data |-> <<>>]}
    \cup (IF e.NEW_RELIC_API_KEY # None
          THEN {SearchResult(k, us) :
                   k \in {"user", "users"}, us \in SeqsUpTo(UserEntries, MaxUsers)}
               \cup {[data |-> <<>>], [data |-> [actor |-> <<>>]]}
          ELSE {})

\* responses of the delete mutation POST; without the API key only errors
DeleteResponses(e) ==
    {[errors |-> <<"error">>]}
    \cup (IF e.NEW_RELIC_API_KEY # None
          THEN {[data |-> [userManagementDeleteUser |-> [deletedUser |-> [id |-> i]]]] :
                   i \in {"NR-999", "NR-1", None}}
               \cup {[data |-> [userManagementDeleteUser |-> [success |-> b]]] :
                   b \in BOOLEAN}
               \cup {[data |-> [userManagementDeleteUser |-> <<>>]]}
          ELSE {})

\* ---- the functions main() calls ---------------------------------------
\* get_graph_api_token, after the token response arrived
get_graph_api_token(resp) ==
    IF "access_token" \in DOMAIN resp THEN resp.access_token ELSE None

\* get_user_email, after the directory response arrived
get_user_email(response) ==
    IF response.status_code = 200
    THEN Get(response.json, "mail", None)
    ELSE None

\* the users array get_new_relic_user_id reads from the response
LookupUsers(data) ==
    Get(Get(Get(Get(Get(data, "data", <<>>), "actor", <<>>),
                "users", <<>>), "userSearch", <<>>), "users", <<>>)

\* get_new_relic_user_id, after the search response arrived: the value
\* returned, or raised = TRUE for the KeyError of users[0]["id"]
get_new_relic_user_id(data) ==
    IF "errors" \in DOMAIN data
    THEN [raised |-> FALSE, value |-> None]
    ELSE LET users == LookupUsers(data)
         IN  IF users # <<>>
             THEN IF "id" \in DOMAIN users[1]
                  THEN [raised |-> FALSE, value |-> users[1].id]
                  ELSE [raised |-> TRUE, value |-> None]
             ELSE [raised |-> FALSE, value |-> None]

\* remove_user_from_new_relic, after the mutation response arrived
remove_user_from_new_relic(data) == ~ ("errors" \in DOMAIN data)

\* main's test of the extracted user id (line 113)
UserIdOk(uid) == uid # <<>>

\* the token test left out
TokenOk_Always(tok) == TRUE

\* main's test of the access token (line 119)
TokenOk(tok) == Truthy(tok)

\* the email test written as a comparison with the empty string
EmailOk_EmptyOnly(e) == e # ""

\* main's test of the email (line 124)
EmailOk(e) == Truthy(e)

\* the id test written as a comparison with None
PlatformIdOk_NoneOnly(id) == id # None

\* main's test of the New Relic user id (line 129)
PlatformIdOk(id) == Truthy(id)

\* ---- the responses main() returns -----------------------------------
InvalidEvent == HttpResponse(<<"Invalid event format">>, 400)

AuthFailed ==
    HttpResponse(<<"Failed to authenticate with Microsoft Graph API">>, 500)

EmailFailed == HttpResponse(<<"Failed to fetch user email">>, 500)

\* the not-found answer with the status of its neighbours
UserNotFound_500(e) ==
    HttpResponse(<<"User ", e, " not found in New Relic.">>, 500)

UserNotFound(e) ==
    HttpResponse(<<"User ", e, " not found in New Relic.">>, 404)

\* the success branch answering with the not-found response
UserRemoved_AsNotFound(e, id) ==
    HttpResponse(<<"User ", e, " not found in New Relic.">>, 404)

\* the success answer without the id
UserRemoved_NoId(e, id) ==
    HttpResponse(<<"User ", e, " removed from New Relic.">>, 200)

UserRemoved(e, id) ==
    HttpResponse(<<"User ", e, " (ID: ", id, ") removed from New Relic.">>, 200)

RemoveFailed(e) ==
    HttpResponse(<<"Failed to remove user ", e, " from New Relic.">>, 500)

\* a failed token request answered by asking again
OnAuthFailure_Retry == "token"

\* where main goes when the token test fails: it returns (line 120)
OnAuthFailure == "done"

\* a failed directory lookup answered by authenticating again
OnEmailFailure_Reauthenticate == "token"

\* where main goes when the email test fails: it returns (line 125)
OnEmailFailure == "done"

\* ---- the run ----------------------------------------------------------
\* a request sent to another system
Call(fn, arg) == [fn |-> fn, arg |-> arg]

\* /tmp/consumer_group_status.txt before it is written
NoFile == [exists |-> FALSE, lines |-> <<>>]

\* the Kafka function has not been called
KafkaIdle ==
    /\ k_env = [NEW_RELIC_API_KEY |-> "", NEW_RELIC_ACCOUNT_ID |-> ""]
    /\ k_pc = "start"
    /\ k_file = NoFile
    /\ k_ids = <<>>
    /\ k_steps = <<>>
    /\ k_exc = None
    /\ k_post = <<>>
    /\ k_response = NoResponse

\* the invocations of main that may run at the same time
Invocations == {1, 2}

\* the New Relic accounts that match the user's email
PlatformIds == {"NR-999", "NR-1"}

\* the shape the platform answers a user search in: the key under actor
\* and the key of the identifier in an entry
ApiShapes == [path : {"user", "users"}, key : {"id", "userId"}]

\* the locals of one invocation of main at its entry; pred, deleted and
\* missed record the invocations that had finished when this one began,
\* the accounts the platform removed on its request, and whether its
\* delete request named an account that was already gone
NewInvocation ==
    [pc |-> "start", user_id |-> <<>>, access_token |-> None,
     email |-> None, new_relic_user_id |-> None, removed |-> FALSE,
     http_response |-> NoResponse, calls |-> <<>>,
     pred |-> {}, deleted |-> {}, missed |-> FALSE]

\* no concurrent invocation is running
MultiIdle ==
    /\ inv = [i \in Invocations |-> NewInvocation]
    /\ nr_users = {}
    /\ api = [path |-> "users", key |-> "id"]

Init ==
    /\ env \in Environments
    /\ event \in Events
    /\ pc = "start"
    /\ user_id = <<>>
    /\ access_token = None
    /\ email = None
    /\ new_relic_user_id = None
    /\ token_response = <<>>
    /\ email_response = <<>>
    /\ lookup_data = <<>>
    /\ delete_data = <<>>
    /\ removed = FALSE
    /\ http_response = NoResponse
    /\ calls = <<>>
    /\ inflight = {}
    /\ MultiIdle
    /\ KafkaIdle

\* main, lines 108-115: data.get("subject") is None without the key and
\* None.split raises; an empty last segment is answered with 400
ReceiveEvent ==
    /\ pc = "start"
    /\ IF "subject" \notin DOMAIN event
       THEN /\ pc' = "crashed"
            /\ UNCHANGED <<user_id, http_response>>
       ELSE LET parts == split(event.subject, "/")
                uid == parts[Len(parts)]
            IN  /\ user_id' = uid
                /\ IF UserIdOk(uid)
                   THEN pc' = "token" /\ UNCHANGED http_response
                   ELSE pc' = "done" /\ http_response' = InvalidEvent
    /\ UNCHANGED <<othervars, env, event, access_token, email, new_relic_user_id,
                   token_response, email_response, lookup_data, delete_data,
                   removed, calls, inflight>>

\* get_graph_api_token, lines 18-22: the token request is sent
TokenCall ==
    /\ pc = "token"
    /\ pc' = "token_wait"
    /\ calls' = Append(calls, Call("get_graph_api_token", <<>>))
    /\ inflight' = inflight \cup {"get_graph_api_token"}
    /\ UNCHANGED <<othervars, env, event, user_id, access_token, email,
                   new_relic_user_id, token_response, email_response,
                   lookup_data, delete_data, removed, http_response>>

\* get_graph_api_token, lines 22-28, and main, lines 118-120
TokenReturn ==
    /\ pc = "token_wait"
    /\ \E resp \in TokenResponses(env) :
        /\ token_response' = resp
        /\ access_token' = get_graph_api_token(resp)
        /\ IF TokenOk(get_graph_api_token(resp))
           THEN pc' = "email" /\ UNCHANGED http_response
           ELSE pc' = OnAuthFailure /\ http_response' = AuthFailed
    /\ inflight' = inflight \ {"get_graph_api_token"}
    /\ UNCHANGED <<othervars, env, event, user_id, email, new_relic_user_id,
                   email_response, lookup_data, delete_data, removed, calls>>

\* get_user_email, lines 32-34: the directory request is sent
EmailCall ==
    /\ pc = "email"
    /\ pc' = "email_wait"
    /\ calls' = Append(calls, Call("get_user_email", user_id))
    /\ inflight' = inflight \cup {"get_user_email"}
    /\ UNCHANGED <<othervars, env, event, user_id, access_token, email,
                   new_relic_user_id, token_response, email_response,
                   lookup_data, delete_data, removed, http_response>>

\* get_user_email, lines 34-40, and main, lines 123-125
EmailReturn ==
    /\ pc = "email_wait"
    /\ \E response \in EmailResponses :
        /\ email_response' = response
        /\ email' = get_user_email(response)
        /\ IF EmailOk(get_user_email(response))
           THEN pc' = "lookup" /\ UNCHANGED http_response
           ELSE pc' = OnEmailFailure /\ http_response' = EmailFailed
    /\ inflight' = inflight \ {"get_user_email"}
    /\ UNCHANGED <<othervars, env, event, user_id, access_token, new_relic_user_id,
                   token_response, lookup_data, delete_data, removed, calls>>

\* get_new_relic_user_id, lines 45-64: the search request is sent
LookupCall ==
    /\ pc = "lookup"
    /\ pc' = "lookup_wait"
    /\ calls' = Append(calls, Call("get_new_relic_user_id", email))
    /\ inflight' = inflight \cup {"get_new_relic_user_id"}
    /\ UNCHANGED <<othervars, env, event, user_id, access_token, email,
                   new_relic_user_id, token_response, email_response,
                   lookup_data, delete_data, removed, http_response>>

\* get_new_relic_user_id, lines 64-76, and main, lines 128-130
LookupReturn ==
    /\ pc = "lookup_wait"
    /\ \E data \in LookupResponses(env) :
        LET r == get_new_relic_user_id(data)
        IN  /\ lookup_data' = data
            /\ IF r.raised
               THEN /\ pc' = "crashed"
                    /\ UNCHANGED <<new_relic_user_id, http_response>>
               ELSE /\ new_relic_user_id' = r.value
                    /\ IF PlatformIdOk(r.value)
                       THEN pc' = "remove" /\ UNCHANGED http_response
                       ELSE /\ pc' = "done"
                            /\ http_response' = UserNotFound(email)
    /\ inflight' = inflight \ {"get_new_relic_user_id"}
    /\ UNCHANGED <<othervars, env, event, user_id, access_token, email, token_response,
                   email_response, delete_data, removed, calls>>

\* remove_user_from_new_relic, lines 81-96: the mutation is sent
RemoveCall ==
    /\ pc = "remove"
    /\ pc' = "remove_wait"
    /\ calls' = Append(calls, Call("remove_user_from_new_relic",
                                   new_relic_user_id))
    /\ inflight' = inflight \cup {"remove_user_from_new_relic"}
    /\ UNCHANGED <<othervars, env, event, user_id, access_token, email,
                   new_relic_user_id, token_response, email_response,
                   lookup_data, delete_data, removed, http_response>>

\* remove_user_from_new_relic, lines 96-104, and main, lines 133-136
RemoveReturn ==
    /\ pc = "remove_wait"
    /\ \E data \in DeleteResponses(env) :
        /\ delete_data' = data
        /\ removed' = remove_user_from_new_relic(data)
        /\ http_response' =
              IF remove_user_from_new_relic(data)
              THEN UserRemoved(email, new_relic_user_id)
              ELSE RemoveFailed(email)
    /\ pc' = "done"
    /\ inflight' = inflight \ {"remove_user_from_new_relic"}
    /\ UNCHANGED <<othervars, env, event, user_id, access_token, email,
                   new_relic_user_id, token_response, email_response,
                   lookup_data, calls>>

Next ==
    \/ ReceiveEvent
    \/ TokenCall
    \/ TokenReturn
    \/ EmailCall
    \/ EmailReturn
    \/ LookupCall
    \/ LookupReturn
    \/ RemoveCall
    \/ RemoveReturn

Spec == Init /\ [][Next]_vars

\* ---- concurrent invocations of main ------------------------------------
\* Two deliveries of the same event run main at the same time (or one
\* after the other).  They share the module-level configuration and the
\* New Relic platform, whose accounts nr_users the delete mutation removes.

\* the orders in which the platform may list the accounts of S
Arrangements(S) ==
    {us \in [1..Cardinality(S) -> S] :
        \A a, b \in DOMAIN us : us[a] = us[b] => a = b}

\* the users array listing the accounts us in the platform's shape
UsersArray(shape, us) == [k \in DOMAIN us |-> (shape.key :> us[k])]

\* the platform's answers to the user search: an error list, or the
\* matching accounts, possibly from an index that still lists removed ones
PlatformLookup(users, shape, e) ==
    {[errors |-> <<"error">>]}
    \cup (IF e.NEW_RELIC_API_KEY # None
          THEN {SearchResult(shape.path, UsersArray(shape, us)) :
                   us \in UNION {Arrangements(S) :
                             S \in {T \in SUBSET PlatformIds : users \subseteq T}}}
          ELSE {})

\* the platform's handling of the delete mutation for id: the answer and
\* the accounts afterwards.  An existing account is removed and confirmed
\* (echoed id or success flag) or the request is rejected; a missing
\* account is answered with an error list or without a confirmation.
PlatformDelete(users, id, e) ==
    {[reply |-> [errors |-> <<"error">>], users |-> users]}
    \cup (IF e.NEW_RELIC_API_KEY = None THEN {}
          ELSE IF id \in users
          THEN {[reply |-> [data |-> [userManagementDeleteUser |->
                                         [deletedUser |-> [id |-> id]]]],
                 users |-> users \ {id}],
                [reply |-> [data |-> [userManagementDeleteUser |->
                                         [success |-> TRUE]]],
                 users |-> users \ {id}]}
          ELSE {[reply |-> [data |-> [userManagementDeleteUser |->
                                         [deletedUser |-> [id |-> None]]]],
                 users |-> users],
                [reply |-> [data |-> [userManagementDeleteUser |->
                                         [success |-> FALSE]]],
                 users |-> users]})

\* the events delivered twice: removals with a short subject, or none
MultiEvents ==
    {e \in Events :
        IsRemoval(e) /\ ("subject" \in DOMAIN e => Len(e.subject) <= 1)}

MultiInit ==
    /\ env \in {e \in Environments : GraphCredentials(e)}
    /\ event \in MultiEvents
    /\ pc = "start"
    /\ user_id = <<>>
    /\ access_token = None
    /\ email = None
    /\ new_relic_user_id = None
    /\ token_response = <<>>
    /\ email_response = <<>>
    /\ lookup_data = <<>>
    /\ delete_data = <<>>
    /\ removed = FALSE
    /\ http_response = NoResponse
    /\ calls = <<>>
    /\ inflight = {}
    /\ inv = [i \in Invocations |-> NewInvocation]
    /\ nr_users \in SUBSET PlatformIds
    /\ api \in ApiShapes
    /\ KafkaIdle

\* the variables of the single run, not used by the invocations
runvars ==
    <<pc, user_id, access_token, email, new_relic_user_id, token_response,
      email_response, lookup_data, delete_data, removed, http_response,
      calls, inflight>>

\* invocation i takes a step that leaves the platform alone
LocalStep(i, l) ==
    /\ inv' = [inv EXCEPT ![i] = l]
    /\ UNCHANGED <<env, event, runvars, nr_users, api, kafkavars>>

\* main, lines 108-115
M_ReceiveEvent(i) ==
    /\ inv[i].pc = "start"
    /\ LET l == [inv[i] EXCEPT
                    !.pred = {j \in Invocations :
                                inv[j].pc \in {"done", "crashed"}}]
       IN  IF "subject" \notin DOMAIN event
           THEN LocalStep(i, [l EXCEPT !.pc = "crashed"])
           ELSE LET parts == split(event.subject, "/")
                    uid == parts[Len(parts)]
                IN  IF UserIdOk(uid)
                    THEN LocalStep(i, [l EXCEPT !.pc = "token",
                                                !.user_id = uid])
                    ELSE LocalStep(i, [l EXCEPT !.pc = "done",
                                                !.user_id = uid,
                                                !.http_response = InvalidEvent])

\* get_graph_api_token, lines 18-22
M_TokenCall(i) ==
    /\ inv[i].pc = "token"
    /\ LocalStep(i, [inv[i] EXCEPT
           !.pc = "token_wait",
           !.calls = Append(@, Call("get_graph_api_token", <<>>))])

\* get_graph_api_token, lines 22-28, and main, lines 118-120
M_TokenReturn(i) ==
    /\ inv[i].pc = "token_wait"
    /\ \E resp \in TokenResponses(env) :
        LET tok == get_graph_api_token(resp)
        IN  IF TokenOk(tok)
            THEN LocalStep(i, [inv[i] EXCEPT !.pc = "email",
                                             !.access_token = tok])
            ELSE LocalStep(i, [inv[i] EXCEPT !.pc = OnAuthFailure,
                                             !.access_token = tok,
                                             !.http_response = AuthFailed])

\* get_user_email, lines 32-34
M_EmailCall(i) ==
    /\ inv[i].pc = "email"
    /\ LocalStep(i, [inv[i] EXCEPT
           !.pc = "email_wait",
           !.calls = Append(@, Call("get_user_email", inv[i].user_id))])

\* get_user_email, lines 34-40, and main, lines 123-125
M_EmailReturn(i) ==
    /\ inv[i].pc = "email_wait"
    /\ \E response \in EmailResponses :
        LET mail == get_user_email(response)
        IN  IF EmailOk(mail)
            THEN LocalStep(i, [inv[i] EXCEPT !.pc = "lookup",
                                             !.email = mail])
            ELSE LocalStep(i, [inv[i] EXCEPT !.pc = OnEmailFailure,
                                             !.email = mail,
                                             !.http_response = EmailFailed])

\* get_new_relic_user_id, lines 45-64
M_LookupCall(i) ==
    /\ inv[i].pc = "lookup"
    /\ LocalStep(i, [inv[i] EXCEPT
           !.pc = "lookup_wait",
           !.calls = Append(@, Call("get_new_relic_user_id", inv[i].email))])

\* get_new_relic_user_id, lines 64-76, and main, lines 128-130
M_LookupReturn(i) ==
    /\ inv[i].pc = "lookup_wait"
    /\ \E data \in PlatformLookup(nr_users, api, env) :
        LET r == get_new_relic_user_id(data)
        IN  IF r.raised
            THEN LocalStep(i, [inv[i] EXCEPT !.pc = "crashed"])
            ELSE IF PlatformIdOk(r.value)
            THEN LocalStep(i, [inv[i] EXCEPT !.pc = "remove",
                                             !.new_relic_user_id = r.value])
            ELSE LocalStep(i, [inv[i] EXCEPT
                    !.pc = "done",
                    !.new_relic_user_id = r.value,
                    !.http_response = UserNotFound(inv[i].email)])

\* remove_user_from_new_relic, lines 81-96
M_RemoveCall(i) ==
    /\ inv[i].pc = "remove"
    /\ LocalStep(i, [inv[i] EXCEPT
           !.pc = "remove_wait",
           !.calls = Append(@, Call("remove_user_from_new_relic",
                                    inv[i].new_relic_user_id))])

\* remove_user_from_new_relic, lines 96-104, and main, lines 133-136;
\* the platform handles the mutation and answers
M_RemoveReturn(i) ==
    /\ inv[i].pc = "remove_wait"
    /\ \E d \in PlatformDelete(nr_users, inv[i].new_relic_user_id, env) :
        LET ok == remove_user_from_new_relic(d.reply)
        IN  /\ nr_users' = d.users
            /\ inv' = [inv EXCEPT ![i] = [inv[i] EXCEPT
                  !.pc = "done",
                  !.removed = ok,
                  !.deleted = nr_users \ d.users,
                  !.missed = inv[i].new_relic_user_id \notin nr_users,
                  !.http_response =
                      IF ok
                      THEN UserRemoved(inv[i].email, inv[i].new_relic_user_id)
                      ELSE RemoveFailed(inv[i].email)]]
    /\ UNCHANGED <<env, event, runvars, api, kafkavars>>

MultiNext ==
    \E i \in Invocations :
        \/ M_ReceiveEvent(i)
        \/ M_TokenCall(i)
        \/ M_TokenReturn(i)
        \/ M_EmailCall(i)
        \/ M_EmailReturn(i)
        \/ M_LookupCall(i)
        \/ M_LookupReturn(i)
        \/ M_RemoveCall(i)
        \/ M_RemoveReturn(i)

MultiSpec == MultiInit /\ [][MultiNext]_vars

\* ---- the Kafka consumer-group function (src/kafka-apps/__init__.py) ----
\* main describes the consumer group into a file, extracts the consumer
\* ids from the file and posts them to New Relic.  A line of the file is
\* a sequence of characters; the character "H" stands for the header text
\* CONSUMER-ID, " " for white space, "c" for any other character.

\* the characters of a line
LineChars == {"c", " ", "H"}

\* the outputs of kafka-consumer-groups.sh, as lines
CommandOutputs == SeqsUpTo(SeqsUpTo(LineChars, MaxLineLen), MaxLines)

\* the outcomes of the post: a response with a status, or the
\* RequestException raised
PostResults ==
    {[status_code |-> c] : c \in {200, 403, 500}}
    \cup {[raised |-> "RequestException"]}

\* "CONSUMER-ID" in line
HasHeader(line) == \E k \in DOMAIN line : line[k] = "H"

\* line.split(): the words between runs of white space
Words(line) == SelectSeq(split(line, " "), LAMBDA w : w # <<>>)

\* extract_consumer_ids, lines 25-30: the first word of every line that
\* is not a header and not blank
RECURSIVE extract_consumer_ids(_)
extract_consumer_ids(lines) ==
    IF lines = <<>> THEN <<>>
    ELSE LET parts == Words(Head(lines))
             rest == extract_consumer_ids(Tail(lines))
         IN  IF HasHeader(Head(lines)) THEN rest
             ELSE IF Len(parts) > 0 THEN <<parts[1]>> \o rest
             ELSE rest

\* the configuration test written for the API key only
ConfigOk_KeyOnly(e) == e.NEW_RELIC_API_KEY # ""

\* main's test of the configuration (line 75)
ConfigOk(e) == e.NEW_RELIC_API_KEY # "" /\ e.NEW_RELIC_ACCOUNT_ID # ""

\* send_to_new_relic, lines 55-58: a status is logged and the function
\* returns; only an exception leaves it early
SendRaises(result) == "raised" \in DOMAIN result

\* the responses main returns
K_NotConfigured ==
    HttpResponse(<<"New Relic API Key and Account ID must be set.">>, 500)

K_Sent(n) ==
    HttpResponse(<<"Successfully sent ", n, " CONSUMER-ID values to New Relic.">>, 200)

K_NoIds == HttpResponse(<<"No CONSUMER-ID values found.">>, 404)

K_Error(e) == HttpResponse(<<"Error: ", e>>, 500)

KafkaInit ==
    /\ env = [TENANT_ID |-> None, CLIENT_ID |-> None,
              CLIENT_SECRET |-> None, NEW_RELIC_API_KEY |-> None]
    /\ event = [eventType |-> "Unknown"]
    /\ pc = "start"
    /\ user_id = <<>>
    /\ access_token = None
    /\ email = None
    /\ new_relic_user_id = None
    /\ token_response = <<>>
    /\ email_response = <<>>
    /\ lookup_data = <<>>
    /\ delete_data = <<>>
    /\ removed = FALSE
    /\ http_response = NoResponse
    /\ calls = <<>>
    /\ inflight = {}
    /\ MultiIdle
    /\ k_env \in [NEW_RELIC_API_KEY : {"", "key"},
                   NEW_RELIC_ACCOUNT_ID : {"", "account"}]
    /\ k_pc = "start"
    /\ k_file = NoFile
    /\ k_ids = <<>>
    /\ k_steps = <<>>
    /\ k_exc = None
    /\ k_post = <<>>
    /\ k_response = NoResponse

\* what a step of the Kafka function leaves alone
KafkaFrame == UNCHANGED <<env, event, runvars, multivars, k_env>>

\* main, lines 65-76
K_CheckConfig ==
    /\ k_pc = "start"
    /\ IF ConfigOk(k_env)
       THEN k_pc' = "describe" /\ UNCHANGED k_response
       ELSE k_pc' = "done" /\ k_response' = K_NotConfigured
    /\ UNCHANGED <<k_file, k_ids, k_steps, k_exc, k_post>>
    /\ KafkaFrame

\* describe_consumer_group, lines 9-18: the command writes the file, or
\* fails and CalledProcessError is raised again
K_Describe ==
    /\ k_pc = "describe"
    /\ k_steps' = Append(k_steps, "describe")
    /\ \/ \E output \in CommandOutputs :
             /\ k_file' = [exists |-> TRUE, lines |-> output]
             /\ k_pc' = "extract"
             /\ UNCHANGED k_exc
       \/ /\ k_exc' = "CalledProcessError"
          /\ k_pc' = "except"
          /\ UNCHANGED k_file
    /\ UNCHANGED <<k_ids, k_post, k_response>>
    /\ KafkaFrame

\* extract_consumer_ids, lines 21-35, and main, lines 82-89
K_Extract ==
    /\ k_pc = "extract"
    /\ k_steps' = Append(k_steps, "extract")
    /\ IF ~ k_file.exists
       THEN /\ k_exc' = "FileNotFoundError"
            /\ k_pc' = "except"
            /\ UNCHANGED <<k_ids, k_response>>
       ELSE /\ k_ids' = extract_consumer_ids(k_file.lines)
            /\ UNCHANGED k_exc
            /\ IF extract_consumer_ids(k_file.lines) # <<>>
               THEN k_pc' = "send" /\ UNCHANGED k_response
               ELSE k_pc' = "done" /\ k_response' = K_NoIds
    /\ UNCHANGED <<k_file, k_post>>
    /\ KafkaFrame

\* send_to_new_relic, lines 39-54: the post is sent
K_SendCall ==
    /\ k_pc = "send"
    /\ k_pc' = "send_wait"
    /\ k_steps' = Append(k_steps, "send")
    /\ UNCHANGED <<k_file, k_ids, k_exc, k_post, k_response>>
    /\ KafkaFrame

\* send_to_new_relic, lines 54-61, and main, lines 86-87
K_SendReturn ==
    /\ k_pc = "send_wait"
    /\ \E result \in PostResults :
        /\ k_post' = result
        /\ IF SendRaises(result)
           THEN /\ k_exc' = result.raised
                /\ k_pc' = "except"
                /\ UNCHANGED k_response
           ELSE /\ k_pc' = "done"
                /\ k_response' = K_Sent(Len(k_ids))
                /\ UNCHANGED k_exc
    /\ UNCHANGED <<k_file, k_ids, k_steps>>
    /\ KafkaFrame

\* main, lines 91-93: every exception is answered with 500
K_Except ==
    /\ k_pc = "except"
    /\ k_pc' = "done"
    /\ k_response' = K_Error(k_exc)
    /\ UNCHANGED <<k_file, k_ids, k_steps, k_exc, k_post>>
    /\ KafkaFrame

KafkaNext ==
    \/ K_CheckConfig
    \/ K_Describe
    \/ K_Extract
    \/ K_SendCall
    \/ K_SendReturn
    \/ K_Except

KafkaSpec == KafkaInit /\ [][KafkaNext]_vars

\* ---- properties --------------------------------------------------------
\* a request to fn was sent in this run
Issued(fn) == \E i \in DOMAIN calls : calls[i].fn = fn

\* a request to fn was sent and its response has arrived
Returned(fn) == Issued(fn) /\ fn \notin inflight

\* the users array of a search response under data.actor.<k>.userSearch
UsersAt(data, k) ==
    Get(Get(Get(Get(Get(data, "data", <<>>), "actor", <<>>),
                k, <<>>), "userSearch", <<>>), "users", <<>>)

\* the search response has a users array under data.actor.<k>.userSearch
HasUsersAt(data, k) ==
    "users" \in DOMAIN Get(Get(Get(Get(data, "data", <<>>), "actor", <<>>),
                               k, <<>>), "userSearch", <<>>)

\* the identifier of an entry of a users array
EntryId(u) == IF "id" \in DOMAIN u THEN u.id ELSE u.userId

\* the search response is a result set with no entry
EmptyResultSet(data) ==
    /\ "errors" \notin DOMAIN data
    /\ HasUsersAt(data, "user") \/ HasUsersAt(data, "users")
    /\ UsersAt(data, "user") = <<>>
    /\ UsersAt(data, "users") = <<>>

\* the delete response confirms the deletion: a non-null echoed id or
\* a success flag that is true
Confirms(data) ==
    LET r == Get(Get(data, "data", <<>>), "userManagementDeleteUser", <<>>)
    IN  \/ "deletedUser" \in DOMAIN r /\ r.deletedUser.id # None
        \/ "success" \in DOMAIN r /\ r.success

\* every credential is set and the event is a removal
NominalInput ==
    /\ \A k \in DOMAIN env : env[k] # None
    /\ IsRemoval(event)

\* the order of the four network calls
CallOrder ==
    <<"get_graph_api_token", "get_user_email", "get_new_relic_user_id",
      "remove_user_from_new_relic">>

\* C1: the delete request is sent only after the user lookup returned a
\* non-empty New Relic user id (and carries that id); the user lookup is
\* sent only after the directory lookup returned a non-empty email (and
\* carries that email).
C1_CallsAreGated ==
    \A i \in DOMAIN calls :
        /\ calls[i].fn = "remove_user_from_new_relic" =>
              /\ Returned("get_new_relic_user_id")
              /\ new_relic_user_id \notin {None, ""}
              /\ calls[i].arg = new_relic_user_id
        /\ calls[i].fn = "get_new_relic_user_id" =>
              /\ Returned("get_user_email")
              /\ email \notin {None, ""}
              /\ calls[i].arg = email

\* a run that sent the user lookup and then the delete request
C1_Witness ==
    /\ Issued("get_new_relic_user_id")
    /\ Issued("remove_user_from_new_relic")
    /\ pc = "remove_wait"

\* C2: for an event whose type is not a removal the delete request is
\* never sent, and the run of a well-formed such event does not end with
\* an error status (stated for runs with every credential set).
C2_NonRemovalIsNoOp ==
    (~ IsRemoval(event) /\ \A k \in DOMAIN env : env[k] # None) =>
        /\ ~ Issued("remove_user_from_new_relic")
        /\ (pc = "done" /\ http_response # InvalidEvent) =>
              http_response.status_code < 400

\* C3: when the search response has no error list and a non-empty users
\* array under data.actor.user.userSearch.users (first entry with a
\* non-empty identifier), the run goes on to the deletion with the
\* identifier of the first entry.
C3_FirstEntryIsDeleted ==
    ( /\ NominalInput
      /\ Returned("get_new_relic_user_id")
      /\ "errors" \notin DOMAIN lookup_data
      /\ UsersAt(lookup_data, "user") # <<>>
      /\ EntryId(UsersAt(lookup_data, "user")[1]) \notin {None, ""} ) =>
        /\ pc \in {"remove", "remove_wait", "done"}
        /\ new_relic_user_id = EntryId(UsersAt(lookup_data, "user")[1])
        /\ pc = "done" => Issued("remove_user_from_new_relic")
        /\ \A i \in DOMAIN calls :
              calls[i].fn = "remove_user_from_new_relic" =>
                 calls[i].arg = EntryId(UsersAt(lookup_data, "user")[1])

\* C4: when the user lookup returned an empty result set the run has
\* ended with the 404 not-found answer and no delete request was sent.
C4_EmptyResultIsNotFound ==
    (Returned("get_new_relic_user_id") /\ EmptyResultSet(lookup_data)) =>
        /\ pc = "done"
        /\ http_response.status_code = 404
        /\ http_response.body = <<"User ", email, " not found in New Relic.">>
        /\ ~ Issued("remove_user_from_new_relic")

\* a finished run whose user lookup returned an empty users array
C4_Witness ==
    /\ pc = "done"
    /\ Returned("get_new_relic_user_id")
    /\ EmptyResultSet(lookup_data)
    /\ HasUsersAt(lookup_data, "users")

\* C5: when the search response carries a top-level error list no delete
\* request is sent and the run does not end with the 404 not-found status.
C5_QueryErrorIsNotNotFound ==
    (NominalInput /\ Returned("get_new_relic_user_id") /\ "errors" \in DOMAIN lookup_data) =>
        /\ ~ Issued("remove_user_from_new_relic")
        /\ pc = "done" => http_response.status_code # 404

\* C6: the deletion reports success exactly when the delete response has
\* no error list and confirms the deletion.
C6_SuccessIffConfirmed ==
    (NominalInput /\ Returned("remove_user_from_new_relic")) =>
        (removed <=> ("errors" \notin DOMAIN delete_data /\ Confirms(delete_data)))

\* C7: when a required credential is absent no network call is sent and a
\* run that gets past the event check ends with status 500.
C7_MissingCredentialShortCircuits ==
    (\E k \in DOMAIN env : env[k] = None) =>
        /\ calls = <<>>
        /\ (pc = "done" /\ http_response # InvalidEvent) =>
              http_response.status_code = 500

\* C8: when the directory lookup returned a status other than 200, or 200
\* with a null mail field, the run has ended with the email-resolution
\* failure and neither the user lookup nor the delete request was sent.
C8_ResolutionFailure ==
    ( /\ Returned("get_user_email")
      /\ \/ email_response.status_code # 200
         \/ Get(email_response.json, "mail", None) = None ) =>
        /\ pc = "done"
        /\ http_response.status_code = 500
        /\ http_response.body = <<"Failed to fetch user email">>
        /\ ~ Issued("get_new_relic_user_id")
        /\ ~ Issued("remove_user_from_new_relic")

\* a finished run whose directory lookup answered 200 with a null mail
C8_Witness ==
    /\ pc = "done"
    /\ Returned("get_user_email")
    /\ email_response.status_code = 200
    /\ Get(email_response.json, "mail", "") = None

\* C9: the network calls are sent in the order token, directory lookup,
\* user lookup, deletion; a call is sent only when every earlier call has
\* returned a successful result; at most one call is in flight.
C9_CallsInOrder ==
    /\ Len(calls) <= Len(CallOrder)
    /\ \A i \in DOMAIN calls : calls[i].fn = CallOrder[i]
    /\ Cardinality(inflight) <= 1
    /\ Len(calls) >= 2 =>
          /\ Returned("get_graph_api_token")
          /\ "access_token" \in DOMAIN token_response
          /\ token_response.access_token \notin {None, ""}
    /\ Len(calls) >= 3 =>
          /\ Returned("get_user_email")
          /\ email_response.status_code = 200
          /\ Get(email_response.json, "mail", None) \notin {None, ""}
    /\ Len(calls) >= 4 =>
          /\ Returned("get_new_relic_user_id")
          /\ "errors" \notin DOMAIN lookup_data
          /\ new_relic_user_id \notin {None, ""}

\* a run in which all four calls were sent
C9_Witness == Len(calls) = 4 /\ pc = "done"

\* C10: a run never ends by crashing, and a finished run has returned one
\* of the enumerated answers (stated for runs with every credential set).
C10_NeverCrashes ==
    (\A k \in DOMAIN env : env[k] # None) =>
    /\ pc # "crashed"
    /\ pc = "done" => http_response.status_code \in {200, 400, 404, 500}

\* x is one of the parts of the message body
Contains(body, x) == \E i \in DOMAIN body : body[i] = x

\* the number of requests sent to fn
Count(log, fn) == Cardinality({i \in DOMAIN log : log[i].fn = fn})

\* the stage of the run: Start, TokenAcquired, EmailResolved,
\* PlatformIdResolved, then the terminal states
StageRank(p) ==
    CASE p \in {"start", "token", "token_wait"} -> 0
      [] p \in {"email", "email_wait"} -> 1
      [] p \in {"lookup", "lookup_wait"} -> 2
      [] p \in {"remove", "remove_wait"} -> 3
      [] OTHER -> 4

C13_ForwardOnly ==
    [][ /\ StageRank(pc') >= StageRank(pc)
        /\ pc \in {"done", "crashed"} => pc' = pc
        /\ \A i \in DOMAIN CallOrder : Count(calls', CallOrder[i]) <= 1
      ]_vars

\* a finished run that sent each of the four calls once
C13_Witness ==
    /\ pc = "done"
    /\ \A i \in DOMAIN CallOrder : Count(calls, CallOrder[i]) = 1

\* C16: when the token response carries no access token the run has ended
\* with the 500 authentication failure, the token request was sent once
\* and no other request was sent.
C16_AuthFailureIsTerminal ==
    (Returned("get_graph_api_token")
        /\ "access_token" \notin DOMAIN token_response) =>
        /\ pc = "done"
        /\ http_response.status_code = 500
        /\ http_response.body =
              <<"Failed to authenticate with Microsoft Graph API">>
        /\ Len(calls) = 1

\* a finished run whose token request was rejected
C16_Witness ==
    /\ pc = "done"
    /\ Returned("get_graph_api_token")
    /\ "error" \in DOMAIN token_response

\* C17: the user id looked up in the directory is the last segment of the
\* subject; an event without a subject, or with an empty last segment, is
\* answered with 400 and no request is sent.
C17_SubjectIdOrInvalidEvent ==
    pc # "start" =>
        /\ \A i \in DOMAIN calls :
              calls[i].fn = "get_user_email" =>
                 LET parts == split(event.subject, "/")
                 IN  calls[i].arg = parts[Len(parts)]
        /\ ("subject" \notin DOMAIN event
              \/ LET parts == split(event.subject, "/")
                 IN  parts[Len(parts)] = <<>>) =>
              /\ pc = "done"
              /\ http_response.status_code = 400
              /\ calls = <<>>

\* invocation i sent a request to fn
M_Issued(i, fn) == \E k \in DOMAIN inv[i].calls : inv[i].calls[k].fn = fn

\* the answer is the failed-removal answer of line 136
IsRemoveFailed(resp) ==
    /\ resp.status_code = 500
    /\ resp.body # <<>>
    /\ resp.body[1] = "Failed to remove user "

\* C11: when a run begins after another run has removed the user and no
\* matching account is left, and it gets as far as the user lookup, it
\* ends with the 404 not-found answer or with the failed-removal answer,
\* never in a crash, and the removed account stays removed.
C11_SecondRunNotFoundOrFailure ==
    \A i, j \in Invocations :
        ( /\ j \in inv[i].pred
          /\ inv[j].removed /\ inv[j].deleted # {}
          /\ nr_users = {} /\ inv[i].deleted = {}
          /\ M_Issued(i, "get_new_relic_user_id")
          /\ inv[i].pc \in {"done", "crashed"} ) =>
            /\ inv[i].pc = "done"
            /\ \/ inv[i].http_response.status_code = 404
               \/ IsRemoveFailed(inv[i].http_response)
            /\ inv[j].deleted \cap nr_users = {}

\* C14: the platform's accounts change only in the step in which an
\* invocation receives the answer to its delete mutation and ends with the
\* success or the failed-removal answer; a run ending with any other
\* outcome has left the accounts as they were.
C14_OnlyDeletionMutates ==
    [][ nr_users' # nr_users =>
          \E i \in Invocations :
              /\ inv[i].pc = "remove_wait"
              /\ inv'[i].pc = "done"
              /\ \/ inv'[i].http_response.status_code = 200
                 \/ IsRemoveFailed(inv'[i].http_response)
              /\ \A j \in Invocations \ {i} : inv'[j] = inv[j]
      ]_vars

\* one run ended with the not-found answer, the other removed an account
C14_Witness ==
    \E i, j \in Invocations :
        /\ inv[i].pc = "done" /\ inv[i].http_response.status_code = 404
        /\ inv[j].pc = "done" /\ inv[j].deleted # {}

\* C15: when two invocations for the same subject both send the delete
\* mutation, the one whose account the other has already removed does not
\* end with a server-error answer.
C15_SecondDeleteIsBenign ==
    \A i \in Invocations :
        ( /\ inv[i].pc = "done"
          /\ inv[i].missed
          /\ \E j \in Invocations \ {i} :
                /\ inv[i].new_relic_user_id \in inv[j].deleted
                /\ j \notin inv[i].pred ) =>
            inv[i].http_response.status_code < 500

\* the steps of the Kafka function in their order
KafkaOrder == <<"describe", "extract", "send">>

\* C18: the Kafka function answers 200 only when the post was sent and
\* answered with status 200.
C18_SuccessOnlyAfterPost200 ==
    (k_pc = "done" /\ k_response.status_code = 200) =>
        /\ Len(k_steps) = 3
        /\ "status_code" \in DOMAIN k_post
        /\ k_post.status_code = 200

\* C19: the steps run in the order describe, extract, send; with an empty
\* API key or account id the answer is 500 and nothing is run; the post is
\* sent only after the describe succeeded and an id was extracted, else
\* the answer is 404 without a post; an exception is answered with 500.
C19_KafkaStepsInOrder ==
    /\ Len(k_steps) <= Len(KafkaOrder)
    /\ \A k \in DOMAIN k_steps : k_steps[k] = KafkaOrder[k]
    /\ (k_env.NEW_RELIC_API_KEY = "" \/ k_env.NEW_RELIC_ACCOUNT_ID = "") =>
          /\ k_steps = <<>>
          /\ k_pc \in {"start", "done"}
          /\ k_pc = "done" => k_response.status_code = 500
    /\ Len(k_steps) = 3 =>
          /\ k_file.exists
          /\ k_ids # <<>>
          /\ k_ids = extract_consumer_ids(k_file.lines)
    /\ (k_pc = "done" /\ Len(k_steps) = 2 /\ k_exc = None) =>
          /\ k_ids = <<>>
          /\ k_response.status_code = 404
    /\ (k_pc = "done" /\ k_exc # None) =>
          /\ k_response.status_code = 500
          /\ k_response.body = <<"Error: ", k_exc>>

\* a run that sent the post after extracting an id from the file
C19_Witness ==
    /\ k_pc = "done"
    /\ Len(k_steps) = 3
    /\ k_ids # <<>>
    /\ k_response.status_code = 200

====
